---- MODULE Spec2Model ----
(***************************************************************************)
(* Model of the syllabus extraction pipeline of                            *)
(* backend/app/utils/crewai_extraction_service.py (extract_with_crew_ai):  *)
(* date scanning, segmentation and the session-date map, the per-block     *)
(* extraction loop, reading consolidation, flattening, the exact-key and   *)
(* the title-based latest-date deduplication, the audit and workload       *)
(* steps with their response parsing, and the entry through                *)
(* extract_deadlines_and_tasks.                                            *)
(*                                                                         *)
(* Strings are modelled by their structure:                                *)
(*  - a title is a sequence of tokens: words, numerals ("3"), the dash "-" *)
(*    and the blank " " (leading or trailing white space);                 *)
(*  - a date string is a record [f, a, b, y] naming its written form:      *)
(*      f = "empty"  the empty string                                      *)
(*      f = "b"      short month name a, day number b      ("Oct 22")      *)
(*      f = "B"      long month name a, day number b       ("October 22")  *)
(*      f = "slash"  a/b or a/b/y (y = 0: no third number) ("10/22")       *)
(*      f = "dot"    a.b or a.b.y                          ("22.10")       *)
(*      f = "iso"    y-a-b                                 ("2024-10-22")  *)
(*      f = "text"   any other text; a, b are its first two digit runs,    *)
(*                   -1 where the text has none            ("Week 12")     *)
(***************************************************************************)
EXTENDS Integers, Sequences, FiniteSets, TLC

VARIABLES
    pc,                 \* position of extract_with_crew_ai
    calls,              \* the external (crew kickoff) calls made so far, in order
    now_year,           \* datetime.now().year of the run
    assessment_components, \* the graded components handed to extract_with_crew_ai
    indexed_lines,      \* the lines of the text, each the sequence of its date matches
    date_candidates,    \* extract_date_candidates(indexed_lines)
    schedule_blocks,    \* seg_data["schedule_blocks"]
    session_dates_raw,  \* seg_data["session_dates"]
    session_dates_map,  \* session number -> date string
    block_idx,          \* number of blocks the extraction loop has processed
    seg_result_raw,     \* the segmenter's response
    ext_outputs,        \* the extractor's response for each processed block
    qa_result,          \* the auditor's response
    workload_result,    \* the workload estimator's response
    all_items,          \* raw items collected by the extraction loop
    consolidated_items, \* all_items after consolidate_overlapping_readings
    flattened_items,    \* flattened_items
    unique_items,       \* unique_items (all_items after dedup pass 1)
    qa_items,           \* validated_items as taken from the auditor
    latest_items,       \* validated_items after deduplicate_by_title_keep_latest
    deduplicated_items, \* deduplicated_items (after dedup pass 2)
    result              \* the returned dict

vars == <<pc, calls, now_year, assessment_components, indexed_lines, date_candidates, schedule_blocks, session_dates_raw,
          session_dates_map, block_idx, ext_outputs, all_items, consolidated_items,
          flattened_items, unique_items, qa_items, latest_items, deduplicated_items,
          result, seg_result_raw, qa_result, workload_result>>

----------------------------------------------------------------------------
(* Generic sequence helpers *)

RECURSIVE SeqsUpTo(_, _)
SeqsUpTo(S, n) ==
    IF n = 0 THEN {<<>>}
    ELSE LET shorter == SeqsUpTo(S, n - 1)
         IN  shorter \cup {Append(s, x) : s \in {t \in shorter : Len(t) = n - 1}, x \in S}

RECURSIVE Concat(_)
Concat(ss) == IF ss = <<>> THEN <<>> ELSE Head(ss) \o Concat(Tail(ss))

RECURSIVE SelectSeqIdx(_, _, _)
\* the elements s[i] with keep[i], in order
SelectSeqIdx(s, keep, i) ==
    IF i > Len(s) THEN <<>>
    ELSE (IF keep[i] THEN <<s[i]>> ELSE <<>>) \o SelectSeqIdx(s, keep, i + 1)

Count(s, x) == Cardinality({i \in 1..Len(s) : s[i] = x})

Range(s) == {s[i] : i \in 1..Len(s)}

----------------------------------------------------------------------------
(* Titles: str.strip() and str.lower() on token sequences *)

Blank == " "

LowerWord ==
    [w \in {"Final", "FINAL", "final", "Paper", "paper", "Sales-video", "sales-video",
            "task", "Task", "Read", "read", "Chapter", "chapter", "Chapters",
            "chapters", "Ch.", "ch.", "pp.", "Pages", "pages", "Midterm", "midterm",
            "Syllabus", "syllabus", "-", " "} |->
        CASE w = "Final" -> "final"
          [] w = "FINAL" -> "final"
          [] w = "Paper" -> "paper"
          [] w = "Sales-video" -> "sales-video"
          [] w = "Task" -> "task"
          [] w = "Read" -> "read"
          [] w = "Chapter" -> "chapter"
          [] w = "Chapters" -> "chapters"
          [] w = "Ch." -> "ch."
          [] w = "Pages" -> "pages"
          [] w = "Midterm" -> "midterm"
          [] w = "Syllabus" -> "syllabus"
          [] OTHER -> w]

\* int(numeral)
NumVal ==
    [t \in {"0", "1", "2", "3", "4", "5", "6"} |->
        CASE t = "0" -> 0 [] t = "1" -> 1 [] t = "2" -> 2 [] t = "3" -> 3
          [] t = "4" -> 4 [] t = "5" -> 5 [] t = "6" -> 6]

\* the token matches \d+
IsNum(tok) == tok \in DOMAIN NumVal

\* str.lower(): digits are unchanged
Lower(title) ==
    [i \in 1..Len(title) |-> IF IsNum(title[i]) THEN title[i] ELSE LowerWord[title[i]]]

RECURSIVE LStrip(_)
LStrip(title) ==
    IF title # <<>> /\ Head(title) = Blank
    THEN LStrip(Tail(title)) ELSE title

RECURSIVE RStrip(_)
RStrip(title) ==
    IF title # <<>> /\ title[Len(title)] = Blank
    THEN RStrip(SubSeq(title, 1, Len(title) - 1)) ELSE title

\* str.strip()
Strip(title) == RStrip(LStrip(title))

----------------------------------------------------------------------------
(* Date strings and datetime values *)

EmptyDate == [f |-> "empty", a |-> 0, b |-> 0, y |-> 0]

ShortDate(m, d) == [f |-> "b", a |-> m, b |-> d, y |-> 0]
LongDate(m, d) == [f |-> "B", a |-> m, b |-> d, y |-> 0]
SlashDate(a, b, y) == [f |-> "slash", a |-> a, b |-> b, y |-> y]
DotDate(a, b, y) == [f |-> "dot", a |-> a, b |-> b, y |-> y]
IsoDate(y, m, d) == [f |-> "iso", a |-> m, b |-> d, y |-> y]
TextDate(a, b) == [f |-> "text", a |-> a, b |-> b, y |-> 0]

\* a datetime as one comparable number, year/month/day
DateTime(y, m, d) == y * 10000 + m * 100 + d

\* datetime.min
DateTimeMin == DateTime(1, 1, 1)

IsLeap(y) == (y % 4 = 0 /\ y % 100 # 0) \/ y % 400 = 0

DaysIn(y, m) ==
    IF m = 2 THEN (IF IsLeap(y) THEN 29 ELSE 28)
    ELSE IF m \in {4, 6, 9, 11} THEN 30 ELSE 31

\* datetime(y, m, d) does not raise ValueError
ValidYMD(y, m, d) == y \in 1..9999 /\ m \in 1..12 /\ d \in 1..DaysIn(y, m)

\* the year strptime gives a date written without one
StrptimeDefaultYear == 1900

\* the year the numeric fallback of parse_date_for_sorting assumes
FallbackYear == 2024

\* a year written with four digits, as %Y requires
FourDigits(y) == y \in 1000..9999

\* re.findall(r'\d+', date_str)
Nums(d) ==
    CASE d.f = "empty" -> <<>>
      [] d.f \in {"b", "B"} -> <<d.b>>
      [] d.f \in {"slash", "dot"} -> IF d.y = 0 THEN <<d.a, d.b>> ELSE <<d.a, d.b, d.y>>
      [] d.f = "iso" -> <<d.y, d.a, d.b>>
      [] d.f = "text" -> IF d.a < 0 THEN <<>> ELSE IF d.b < 0 THEN <<d.a>> ELSE <<d.a, d.b>>

\* datetime.strptime(date_str.strip(), fmt) succeeds for one of the five formats
\* "%b %d", "%B %d", "%m/%d/%Y", "%m/%d", "%Y-%m-%d"
StrptimeOk(d) ==
    CASE d.f \in {"b", "B"} -> ValidYMD(StrptimeDefaultYear, d.a, d.b)
      [] d.f = "slash" ->
            IF d.y = 0 THEN ValidYMD(StrptimeDefaultYear, d.a, d.b)
            ELSE FourDigits(d.y) /\ ValidYMD(d.y, d.a, d.b)
      [] d.f = "iso" -> FourDigits(d.y) /\ ValidYMD(d.y, d.a, d.b)
      [] OTHER -> FALSE

\* the datetime the matching format gives, a year of 1900 replaced by the current year
StrptimeValue(d, year) ==
    LET y == IF d.f \in {"b", "B"} \/ d.y = 0 THEN StrptimeDefaultYear ELSE d.y
    IN  DateTime(IF y = StrptimeDefaultYear THEN year ELSE y, d.a, d.b)

\* a fallback that takes a date without numbers for January 1st
NumericFallbackNoNums(d) ==
    LET nums == Nums(d)
        m == IF nums = <<>> THEN 1 ELSE nums[1]
        dd == IF Len(nums) > 1 THEN nums[2] ELSE 1
    IN  IF ValidYMD(FallbackYear, m, dd) THEN DateTime(FallbackYear, m, dd)
        ELSE DateTimeMin

\* the fallback: datetime(2024, int(nums[0]), int(nums[1]) if len(nums) > 1 else 1),
\* datetime.min when there is no number or datetime() raises
NumericFallback(d) ==
    LET nums == Nums(d)
        m == nums[1]
        dd == IF Len(nums) > 1 THEN nums[2] ELSE 1
    IN  IF nums = <<>> THEN DateTimeMin
        ELSE IF ValidYMD(FallbackYear, m, dd) THEN DateTime(FallbackYear, m, dd)
        ELSE DateTimeMin

\* parse_date_for_sorting(date_str), at current year `year`
parse_date_for_sorting(d, year) ==
    IF d.f = "empty" THEN DateTimeMin
    ELSE IF StrptimeOk(d) THEN StrptimeValue(d, year)
    ELSE NumericFallback(d)

----------------------------------------------------------------------------
(* Flat tasks and the deduplication passes *)

FlatTask(date, type, title, desc) ==
    [date |-> date, type |-> type, title |-> title, description |-> desc]

\* a graded list that also holds the reading type
GradedTypesAndReading == {"assignment", "exam", "project", "assessment", "reading"}

\* the types deduplicate_by_title_keep_latest treats as graded
GradedTypes == {"assignment", "exam", "project", "assessment"}

\* a grouping title that is neither stripped nor lowercased
NormalizedTitleRaw(item) == item.title

\* (item.get("title") or "").strip().lower()
NormalizedTitle(item) == Lower(Strip(item.title))

\* key = (item_type, title) of deduplicate_by_title_keep_latest
GroupKey(item) == <<item.type, NormalizedTitle(item)>>

\* key = (date, type, title) of the exact-key passes
ExactKey(item) == <<item.date, item.type, item.title>>

RECURSIVE ExactKeyDedupKeepLast(_, _)
\* a pass that keeps the last item of each key
ExactKeyDedupKeepLast(items, seen) ==
    IF items = <<>> THEN <<>>
    ELSE IF \E i \in 2..Len(items) : ExactKey(items[i]) = ExactKey(Head(items))
         THEN ExactKeyDedupKeepLast(Tail(items), seen)
         ELSE <<Head(items)>> \o ExactKeyDedupKeepLast(Tail(items), seen)

RECURSIVE ExactKeyDedupForgetful(_, _)
\* a pass that empties `seen` whenever it skips an item
ExactKeyDedupForgetful(items, seen) ==
    IF items = <<>> THEN <<>>
    ELSE LET key == ExactKey(Head(items))
         IN  IF key \in seen THEN ExactKeyDedupForgetful(Tail(items), {})
             ELSE <<Head(items)>> \o ExactKeyDedupForgetful(Tail(items), seen \cup {key})

RECURSIVE ExactKeyDedupFrom(_, _)
ExactKeyDedupFrom(items, seen) ==
    IF items = <<>> THEN <<>>
    ELSE LET key == ExactKey(Head(items))
         IN  IF key \in seen THEN ExactKeyDedupFrom(Tail(items), seen)
             ELSE <<Head(items)>> \o ExactKeyDedupFrom(Tail(items), seen \cup {key})

\* the exact-key pass (pass 1 on flattened_items, pass 2 on validated_items)
ExactKeyDedup(items) == ExactKeyDedupFrom(items, {})

RECURSIVE InsertLatestFirst(_, _)
\* insert x = <<parsed, item>> behind every entry that is not earlier than it
InsertLatestFirst(sorted, x) ==
    IF sorted = <<>> THEN <<x>>
    ELSE IF Head(sorted)[1] >= x[1] THEN <<Head(sorted)>> \o InsertLatestFirst(Tail(sorted), x)
    ELSE <<x>> \o sorted

RECURSIVE SortLatestFirstFrom(_, _)
SortLatestFirstFrom(pairs, sorted) ==
    IF pairs = <<>> THEN sorted
    ELSE SortLatestFirstFrom(Tail(pairs), InsertLatestFirst(sorted, Head(pairs)))

RECURSIVE Reversed(_)
Reversed(seq) == IF seq = <<>> THEN <<>> ELSE Reversed(Tail(seq)) \o <<Head(seq)>>

\* the sort without reverse=True: earliest first
SortEarliestFirst(pairs) == Reversed(SortLatestFirstFrom(pairs, <<>>))

\* items_with_dates.sort(reverse=True, key=lambda x: x[0]): stable, latest first
SortLatestFirst(pairs) == SortLatestFirstFrom(pairs, <<>>)

RECURSIVE GroupKeysFrom(_, _)
\* the keys of `groups`, in insertion order
GroupKeysFrom(items, seen) ==
    IF items = <<>> THEN <<>>
    ELSE LET it == Head(items)
         IN  IF it.type \in GradedTypes /\ GroupKey(it) \notin seen
             THEN <<GroupKey(it)>> \o GroupKeysFrom(Tail(items), seen \cup {GroupKey(it)})
             ELSE GroupKeysFrom(Tail(items), seen)

\* groups[key]
GroupOf(items, key) ==
    SelectSeq(items, LAMBDA it : it.type \in GradedTypes /\ GroupKey(it) = key)

\* the item kept for one group
KeptOfGroup(group_items, year) ==
    IF Len(group_items) > 1
    THEN LET items_with_dates ==
                 [i \in 1..Len(group_items) |->
                     <<parse_date_for_sorting(group_items[i].date, year), group_items[i]>>]
         IN  SortLatestFirst(items_with_dates)[1][2]
    ELSE group_items[1]

\* deduplicate_by_title_keep_latest(items)
deduplicate_by_title_keep_latest(items, year) ==
    LET keys == GroupKeysFrom(items, {})
        deduplicated == [k \in 1..Len(keys) |-> KeptOfGroup(GroupOf(items, keys[k]), year)]
        non_graded == SelectSeq(items, LAMBDA it : it.type \notin GradedTypes)
    IN  deduplicated \o non_graded

----------------------------------------------------------------------------
(* Raw extracted items, reading consolidation, flattening *)

\* a key the extractor's JSON object does not carry
Absent == "<absent>"

\* an element of prep_tasks / mandatory_tasks
SubTask(title, desc) == [title |-> title, description |-> desc]

\* an element of hard_deadlines
Deadline(title, type, desc) == [title |-> title, type |-> type, description |-> desc]

\* an element of the extractor's array; date stands for the "date" key and type,
\* title for the top-level "type" and "title" keys that consolidation reads
RawItem(kind, date_string, type, title, session_title, prep, mand, deadlines) ==
    [kind |-> kind, date_string |-> date_string, date |-> EmptyDate, type |-> type,
     title |-> title, session_title |-> session_title, prep_tasks |-> prep,
     mandatory_tasks |-> mand, hard_deadlines |-> deadlines]

\* lowercased words after which (?:chapter|ch\.?)[s]?\s+(\d+) can match a number
ChapterWords == {"chapter", "chapters", "ch."}

\* lowercased words after which (?:pp?\.?|pages?)\s+(\d+) can match a number
PageWords == {"pp.", "pages"}

\* set(range(start, end + 1)) of the first match of <word> N [- M] in title.lower()
ParseRange(title, words) ==
    LET t == Lower(title)
        hits == {i \in 1..(Len(t) - 1) : t[i] \in words /\ IsNum(t[i + 1])}
    IN  IF hits = {} THEN {}
        ELSE LET i == CHOOSE h \in hits : \A g \in hits : h <= g
                 start == NumVal[t[i + 1]]
                 end == IF Len(t) >= i + 3 /\ t[i + 2] = "-" /\ IsNum(t[i + 3])
                        THEN NumVal[t[i + 3]] ELSE start
             IN  start..end

parse_chapters(title) == ParseRange(title, ChapterWords)

parse_pages(title) == ParseRange(title, PageWords)

\* item.get("type") == "reading" or a class_session with prep or mandatory tasks
IsReadingItem(item) ==
    \/ item.type = "reading"
    \/ item.kind = "class_session" /\ (item.prep_tasks # <<>> \/ item.mandatory_tasks # <<>>)

\* a grouping that puts every reading under one date
ReadingDateIgnored(item) == EmptyDate

\* item.get("date_string") or item.get("date", "")
ReadingDate(item) == IF item.date_string # EmptyDate THEN item.date_string ELSE item.date

\* reading i is fully contained in reading j, by chapters or by pages
Encompasses(other, reading) ==
    LET chapters_i == parse_chapters(reading.title)
        pages_i == parse_pages(reading.title)
        chapters_j == parse_chapters(other.title)
        pages_j == parse_pages(other.title)
    IN  \/ /\ chapters_i # {} /\ chapters_j # {}
           /\ chapters_i \subseteq chapters_j
           /\ Cardinality(chapters_j) > Cardinality(chapters_i)
        \/ /\ pages_i # {} /\ pages_j # {}
           /\ pages_i \subseteq pages_j
           /\ Cardinality(pages_j) > Cardinality(pages_i)

\* kept_readings of one date's readings
KeptReadings(readings) ==
    IF Len(readings) = 1 THEN readings
    ELSE LET keep == [i \in 1..Len(readings) |->
                         \/ readings[i].kind = "class_session"
                         \/ ~\E j \in 1..Len(readings) :
                                j # i /\ Encompasses(readings[j], readings[i])]
         IN  SelectSeqIdx(readings, keep, 1)

RECURSIVE DateKeysFrom(_, _)
\* the keys of readings_by_date, in insertion order
DateKeysFrom(items, seen) ==
    IF items = <<>> THEN <<>>
    ELSE LET d == ReadingDate(Head(items))
         IN  IF d \in seen THEN DateKeysFrom(Tail(items), seen)
             ELSE <<d>> \o DateKeysFrom(Tail(items), seen \cup {d})

\* consolidate_overlapping_readings(items)
consolidate_overlapping_readings(items) ==
    LET reading_items == SelectSeq(items, IsReadingItem)
        other_items == SelectSeq(items, LAMBDA it : ~IsReadingItem(it))
        dates == DateKeysFrom(reading_items, {})
        consolidated ==
            Concat([k \in 1..Len(dates) |->
                KeptReadings(SelectSeq(reading_items,
                                       LAMBDA it : ReadingDate(it) = dates[k]))])
    IN  consolidated \o other_items

RECURSIVE FlatReadingsKeepBlank(_, _, _)
\* a flattening that also emits the entries whose title is blank
FlatReadingsKeepBlank(item, tasks, label) ==
    IF tasks = <<>> THEN <<>>
    ELSE <<[date |-> item.date_string, type |-> "reading",
            title |-> Strip(Head(tasks).title), description |-> <<label>>]>>
         \o FlatReadingsKeepBlank(item, Tail(tasks), label)

RECURSIVE FlatReadings(_, _, _)
\* the tasks prep_tasks / mandatory_tasks flatten to; label is the default
\* description ("Preparatory reading" / "Mandatory reading")
FlatReadings(item, tasks, label) ==
    IF tasks = <<>> THEN <<>>
    ELSE LET task == Head(tasks)
             task_title == Strip(task.title)
             task_desc ==
                 IF task.description # <<>> THEN task.description
                 ELSE IF item.session_title # <<>>
                      THEN <<label, "for">> \o item.session_title
                      ELSE <<label>>
         IN  (IF task_title = <<>> THEN <<>>
              ELSE <<[date |-> item.date_string, type |-> "reading",
                      title |-> task_title, description |-> task_desc]>>)
             \o FlatReadings(item, Tail(tasks), label)

\* the tasks one raw item flattens to
FlattenItem(item) ==
    LET deadlines == [i \in 1..Len(item.hard_deadlines) |->
                         [date |-> item.date_string,
                          type |-> IF item.hard_deadlines[i].type = Absent
                                   THEN "assignment" ELSE item.hard_deadlines[i].type,
                          title |-> item.hard_deadlines[i].title,
                          description |-> item.hard_deadlines[i].description]]
    IN  IF item.kind = "hard_deadline" THEN deadlines
        ELSE IF item.kind = "class_session"
        THEN FlatReadings(item, item.prep_tasks, "Preparatory reading")
             \o FlatReadings(item, item.mandatory_tasks, "Mandatory reading")
             \o deadlines
        ELSE <<>>

\* the flattening loop over all_items
Flatten(items) == Concat([i \in 1..Len(items) |-> FlattenItem(items[i])])

----------------------------------------------------------------------------
(* The date candidate scanner *)

\* a number written with one or two digits, \d{1,2}
OneOrTwoDigits(n) == n \in 0..99

\* a validation that lets every match through
AnyTokenValid(token) == TRUE

\* is_valid_date_token(token); numbers are written without leading zeros, so a
\* number of 1..9 is a single digit
is_valid_date_token(token) ==
    CASE token.f \in {"slash", "dot"} ->
            IF OneOrTwoDigits(token.a) /\ OneOrTwoDigits(token.b)
               /\ (token.y = 0 \/ token.y \in 10..9999)
            THEN IF token.f = "slash" /\ token.y = 0 /\ token.a \in 1..9 /\ token.b \in 1..9
                 THEN FALSE
                 ELSE token.a \in 1..31 /\ token.b \in 1..12
            ELSE FALSE
      [] token.f \in {"b", "B"} -> OneOrTwoDigits(token.b)
      [] OTHER -> FALSE

RECURSIVE LineCandidates(_, _)
\* the candidates of one line, whose DATE_REGEX matches are `matches`
LineCandidates(idx, matches) ==
    IF matches = <<>> THEN <<>>
    ELSE (IF is_valid_date_token(Head(matches))
          THEN <<[date_string |-> Head(matches), line_index |-> idx]>> ELSE <<>>)
         \o LineCandidates(idx, Tail(matches))

\* extract_date_candidates(indexed_lines); a line is the sequence of its DATE_REGEX
\* matches, line indices start at 0
extract_date_candidates(lines) ==
    Concat([i \in 1..Len(lines) |-> LineCandidates(i - 1, lines[i])])

----------------------------------------------------------------------------
(* The session-date map *)

\* a schedule block; session_number 0 stands for a missing or null number
Block(date_string, session_number) ==
    [date_string |-> date_string, session_number |-> session_number]

\* an entry of session_dates
SessionInfo(session_number, date) == [session_number |-> session_number, date |-> date]

EmptyMap == [n \in {} |-> EmptyDate]

\* session_dates_map[k] = v
Put(map, k, v) == [n \in DOMAIN map \cup {k} |-> IF n = k THEN v ELSE map[n]]

RECURSIVE Strategy1(_, _)
\* Strategy 1: the segmenter's explicit session_dates
Strategy1(session_dates, map) ==
    IF session_dates = <<>> THEN map
    ELSE LET session_info == Head(session_dates)
             sess_num == session_info.session_number
             date == session_info.date
         IN  Strategy1(Tail(session_dates),
                       IF sess_num # 0 /\ date # EmptyDate
                       THEN Put(map, sess_num, date) ELSE map)

RECURSIVE Strategy2(_, _, _)
\* Strategy 2: the loop over enumerate(schedule_blocks), from index idx (0-based)
Strategy2(blocks, idx, map) ==
    IF idx >= Len(blocks) THEN map
    ELSE LET block == blocks[idx + 1]
             session_num == block.session_number
             date_str == block.date_string
             inferred_session_num == idx + 1
         IN  Strategy2(blocks, idx + 1,
                 IF session_num # 0 /\ date_str # EmptyDate
                 THEN (IF session_num \notin DOMAIN map
                       THEN Put(map, session_num, date_str) ELSE map)
                 ELSE IF date_str # EmptyDate
                 THEN (IF inferred_session_num \notin DOMAIN map
                       THEN Put(map, inferred_session_num, date_str) ELSE map)
                 ELSE map)

\* session_dates_map as built from seg_data
BuildSessionDatesMap(session_dates, blocks) ==
    Strategy2(blocks, 0, Strategy1(session_dates, EmptyMap))

----------------------------------------------------------------------------
(* Responses of the external calls.  shape is how the JSON text arrives:    *)
(*   "bare"         the JSON text alone                                    *)
(*   "fenced"       the JSON text inside a ``` fence                       *)
(*   "embedded"     a JSON object with other text before or after it       *)
(*   "embedded_bad" braces around text that is not JSON                    *)
(*   "garbage"      text without JSON and without braces                   *)
(*   "raised"       no text: kickoff raised an exception                   *)
(* json is the type of the JSON value: "object" or "array".                *)

\* json.loads(text.strip()) succeeds
LoadsOk(resp) == resp.shape = "bare"

\* the value of a response variable before its call
NoResult == [shape |-> "<none>", json |-> "none"]

\* kickoff raised instead of returning
Raised(resp) == resp.shape = "raised"

SegResponse(shape, json, blocks, session_dates) ==
    [shape |-> shape, json |-> json, schedule_blocks |-> blocks,
     session_dates |-> session_dates]

ExtResponse(shape, json, items) == [shape |-> shape, json |-> json, items |-> items]

QaResponse(shape, json, has_validated, items) ==
    [shape |-> shape, json |-> json, has_validated |-> has_validated,
     validated_items |-> items]

\* an estimated_hours value: t = "missing" (no key, or null), "int" (JSON true and
\* false load as the ints 1 and 0), "float" (v in tenths), "nan" (NaN or Infinity,
\* which json.loads accepts) or "str"
Hours(t, v) == [t |-> t, v |-> v]

WorkloadItem(task, hours) == [task |-> task, estimated_hours |-> hours]

WorkloadResponse(shape, json, items) == [shape |-> shape, json |-> json, items |-> items]

----------------------------------------------------------------------------
(* Results *)

Running == [success |-> FALSE, error |-> "<running>", items_with_workload |-> <<>>,
            total_estimated_hours |-> 0]

Failure(error) == [success |-> FALSE, error |-> error, items_with_workload |-> <<>>,
                   total_estimated_hours |-> 0]

Success(items, total) == [success |-> TRUE, error |-> "", items_with_workload |-> items,
                          total_estimated_hours |-> total]

\* the outcome of the segmentation parse: "ok", "failed" (the explicit return) or
\* "raised" (an exception that reaches the outer handler)
SegParse(resp) ==
    CASE resp.shape = "raised" -> "raised"
      [] resp.shape = "bare" -> IF resp.json = "object" THEN "ok" ELSE "raised"
      [] resp.shape \in {"fenced", "embedded"} ->
            IF resp.json = "object" THEN "ok" ELSE "raised"
      [] resp.shape = "embedded_bad" -> "raised"
      [] OTHER -> "failed"

\* a parse that also takes the array out of a fenced response
ExtItemsLenient(resp) ==
    IF resp.shape \in {"bare", "fenced"} /\ resp.json = "array" THEN resp.items ELSE <<>>

\* the items one extractor response adds to all_items
ExtItems(resp) ==
    IF LoadsOk(resp) /\ resp.json = "array" THEN resp.items ELSE <<>>

\* int(hours) for a float given in tenths: truncation towards zero
TruncTenths(v) == IF v >= 0 THEN v \div 10 ELSE -((-v) \div 10)

\* a normalisation whose default is 0 hours
NormalizedHoursDefaultZero(hours) ==
    CASE hours.t = "int" -> hours.v
      [] hours.t = "float" -> TruncTenths(hours.v)
      [] OTHER -> 0

\* item["estimated_hours"] after the normalisation loop
NormalizedHours(hours) ==
    CASE hours.t = "int" -> hours.v
      [] hours.t = "float" -> TruncTenths(hours.v)
      [] OTHER -> 5

RECURSIVE SumHours(_)
SumHours(items) ==
    IF items = <<>> THEN 0 ELSE Head(items).estimated_hours + SumHours(Tail(items))

\* a parse without the fallback to validated_items
WorkloadParsedNoFallback(resp, validated_items) ==
    IF resp.shape \in {"bare", "fenced"} /\ resp.json = "array" THEN resp.items ELSE <<>>

\* items_with_workload as parsed from the estimator's response, validated_items
\* (which carry no estimated_hours) when it is not a JSON array
WorkloadParsed(resp, validated_items) ==
    IF resp.shape \in {"bare", "fenced"} /\ resp.json = "array" THEN resp.items
    ELSE [i \in 1..Len(validated_items) |->
             WorkloadItem(validated_items[i], Hours("missing", 0))]

----------------------------------------------------------------------------
(* extract_with_crew_ai, one action per external call and the deterministic *)
(* code that follows it up to the next call or return                       *)

\* a return that leaves the run at the step it failed in
ReturnAndRetry(r) == pc' = pc /\ result' = r

Return(r) == pc' = "done" /\ result' = r

\* an exception that leaves the function
Escapes(error) == pc' = "escaped" /\ UNCHANGED result

\* `except Exception as e:` around the body: the exception becomes a result
Caught(error) == Return(Failure(error))

\* entry: extract_deadlines_and_tasks reads the file (file = "unreadable": the
\* document parser raised, "short": fewer than 100 characters, "text": a text,
\* also the direct call of extract_with_crew_ai), then the CREWAI_AVAILABLE test,
\* line indexing and the date candidate scan
Start(text, available, file) ==
    /\ pc = "start"
    /\ IF file = "unreadable"
       THEN /\ Caught("Extraction failed")
            /\ UNCHANGED <<indexed_lines, date_candidates>>
       ELSE IF file = "short"
       THEN /\ Return(Failure("Document appears to be empty or too short"))
            /\ UNCHANGED <<indexed_lines, date_candidates>>
       ELSE IF ~available
       THEN /\ Return(Failure("CrewAI not available"))
            /\ UNCHANGED <<indexed_lines, date_candidates>>
       ELSE /\ indexed_lines' = text
            /\ date_candidates' = extract_date_candidates(indexed_lines')
            /\ IF date_candidates' = <<>>
               THEN Return(Failure("No date candidates found in syllabus"))
               ELSE pc' = "segmentation" /\ UNCHANGED result
    /\ UNCHANGED <<calls, now_year, assessment_components, schedule_blocks, session_dates_raw, session_dates_map,
                   block_idx, ext_outputs, all_items, consolidated_items, flattened_items,
                   unique_items, qa_items, latest_items, deduplicated_items,
                   seg_result_raw, qa_result, workload_result>>

\* Agent 1: the segmentation call, its parse and the session-date map
Segmentation(resp) ==
    /\ pc = "segmentation"
    /\ calls' = Append(calls, "segmentation")
    /\ seg_result_raw' = resp
    /\ IF SegParse(resp) = "ok"
       THEN /\ schedule_blocks' = resp.schedule_blocks
            /\ session_dates_raw' = resp.session_dates
            /\ session_dates_map' =
                   BuildSessionDatesMap(resp.session_dates, resp.schedule_blocks)
            /\ IF resp.schedule_blocks = <<>>
               THEN Return(Failure("No schedule blocks found"))
               ELSE pc' = "extraction" /\ UNCHANGED result
       ELSE /\ IF SegParse(resp) = "failed"
               THEN Return(Failure("Segmentation failed"))
               ELSE Caught("exception")
            /\ UNCHANGED <<schedule_blocks, session_dates_raw, session_dates_map>>
    /\ UNCHANGED <<now_year, assessment_components, indexed_lines, date_candidates, block_idx, ext_outputs, all_items,
                   consolidated_items, flattened_items, unique_items, qa_items,
                   latest_items, deduplicated_items, qa_result, workload_result>>

\* a check that lets an empty task list through
NoTasksLeftIgnored(items) == FALSE

\* `if not all_items:` after flattening and dedup pass 1
NoTasksLeft(items) == items = <<>>

\* Agent 2: the extraction call for the next block; after the last block,
\* consolidation, flattening and dedup pass 1
Extraction(resp) ==
    /\ pc = "extraction"
    /\ block_idx < Len(schedule_blocks)
    /\ calls' = Append(calls, "extraction")
    /\ ext_outputs' = Append(ext_outputs, resp)
    /\ block_idx' = block_idx + 1
    /\ all_items' = all_items \o ExtItems(resp)
    /\ IF Raised(resp)
       THEN /\ Caught("exception")
            /\ UNCHANGED <<consolidated_items, flattened_items, unique_items>>
       ELSE IF block_idx' < Len(schedule_blocks)
       THEN /\ pc' = "extraction"
            /\ UNCHANGED <<consolidated_items, flattened_items, unique_items, result>>
       ELSE IF all_items' = <<>>
       THEN /\ Return(Failure("No items extracted"))
            /\ UNCHANGED <<consolidated_items, flattened_items, unique_items>>
       ELSE /\ consolidated_items' = consolidate_overlapping_readings(all_items')
            /\ flattened_items' = Flatten(consolidated_items')
            /\ unique_items' = ExactKeyDedup(flattened_items')
            /\ IF NoTasksLeft(unique_items')
               THEN Return(Failure("No deadlines found after flattening"))
               ELSE pc' = "audit" /\ UNCHANGED result
    /\ UNCHANGED <<now_year, assessment_components, indexed_lines, date_candidates, schedule_blocks, session_dates_raw,
                   session_dates_map, qa_items, latest_items, deduplicated_items,
                   seg_result_raw, qa_result, workload_result>>

\* Agent 3: the audit call, then the title-based dedup and dedup pass 2
Audit(resp) ==
    /\ pc = "audit"
    /\ calls' = Append(calls, "audit")
    /\ qa_result' = resp
    /\ IF Raised(resp) \/ (LoadsOk(resp) /\ resp.json # "object")
       THEN /\ Caught("exception")
            /\ UNCHANGED <<qa_items, latest_items, deduplicated_items>>
       ELSE /\ qa_items' = IF LoadsOk(resp) /\ resp.has_validated
                           THEN resp.validated_items ELSE unique_items
            /\ latest_items' = deduplicate_by_title_keep_latest(qa_items', now_year)
            /\ deduplicated_items' = ExactKeyDedup(latest_items')
            /\ pc' = "workload"
            /\ UNCHANGED result
    /\ UNCHANGED <<now_year, assessment_components, indexed_lines, date_candidates, schedule_blocks, session_dates_raw,
                   session_dates_map, block_idx, ext_outputs, all_items,
                   consolidated_items, flattened_items, unique_items,
                   seg_result_raw, workload_result>>

\* Agent 4: the workload call, the hours normalisation and the result
Workload(resp) ==
    /\ pc = "workload"
    /\ calls' = Append(calls, "workload")
    /\ workload_result' = resp
    /\ LET parsed == WorkloadParsed(resp, deduplicated_items)
           items_with_workload ==
               [i \in 1..Len(parsed) |->
                   [task |-> parsed[i].task,
                    estimated_hours |-> NormalizedHours(parsed[i].estimated_hours)]]
       IN  IF Raised(resp) \/ \E i \in 1..Len(parsed) : parsed[i].estimated_hours.t = "nan"
           THEN Caught("exception")
           ELSE Return(Success(items_with_workload, SumHours(items_with_workload)))
    /\ UNCHANGED <<now_year, assessment_components, indexed_lines, date_candidates, schedule_blocks, session_dates_raw,
                   session_dates_map, block_idx, ext_outputs, all_items,
                   consolidated_items, flattened_items, unique_items, qa_items,
                   latest_items, deduplicated_items, seg_result_raw, qa_result>>

----------------------------------------------------------------------------
(* Bounded inputs *)

\* longest validated_items list the auditor returns
MaxQaItems == 3

\* longest array the extractor returns for one block
MaxRawItems == 3

\* longest schedule_blocks and session_dates lists the segmenter returns
MaxBlocks == 2

MaxSessionDates == 2

\* most DATE_REGEX matches on one line of the scanned text
MaxLineTokens == 2

\* longest array the workload estimator returns
MaxWorkloadItems == 3

\* datetime.now().year
Years == {2024, 2026}

Oct22 == ShortDate(10, 22)
Oct29 == ShortDate(10, 29)
Nov4 == ShortDate(11, 4)
Nov5 == ShortDate(11, 5)
Nov12 == ShortDate(11, 12)
Dec15 == ShortDate(12, 15)
\* "Week 12"
Week12 == TextDate(12, -1)
\* "TBD"
Tbd == TextDate(-1, -1)
\* "10/22/2024"
Slash2024 == SlashDate(10, 22, 2024)

TSales == <<"Sales-video", "task">>
TSalesPadded == <<" ", "sales-video", "Task">>
TFinal == <<"Final", "Paper">>
TRead3 == <<"Read", "Chapter", "3">>
TRead3Lower == <<"read", "chapter", "3">>
TRead13 == <<"Read", "Chapters", "1", "-", "3">>
TPages15 == <<"Read", "pp.", "1", "-", "5">>
TPages23 == <<"Read", "pp.", "2", "-", "3">>
TSyllabus == <<"Read", "Syllabus">>

\* "10/11" and "5/12": to the scanner the 10th of November and the 5th of December
Slash1011 == SlashDate(10, 11, 0)
Slash512 == SlashDate(5, 12, 0)

\* the tasks the auditor's validated_items are drawn from
QaTasks ==
    {FlatTask(d, "assignment", TSales, <<>>) :
        d \in {Oct29, Nov4, Nov5, Week12, Tbd, Slash2024, Slash1011, Slash512}}
    \cup {FlatTask(Nov12, "assignment", TSalesPadded, <<>>),
          FlatTask(Nov4, "exam", TSales, <<>>),
          FlatTask(Oct22, "reading", TRead3, <<>>),
          FlatTask(Oct29, "reading", TRead3, <<>>),
          FlatTask(Oct29, "administrative", TSyllabus, <<>>)}

QaListResponses ==
    {QaResponse("bare", "object", TRUE, items) : items \in SeqsUpTo(QaTasks, MaxQaItems)}

\* a reading-typed entry that also lists itself as its one hard deadline
ReadingEntry(date, title) ==
    RawItem("hard_deadline", date, "reading", title, <<>>, <<>>, <<>>,
            <<Deadline(title, "reading", <<>>)>>)

\* a reading-typed entry of no kind the flattening knows
BareReading(date, title) ==
    RawItem(Absent, date, "reading", title, <<>>, <<>>, <<>>, <<>>)

\* a class session with the given preparatory readings
ClassSession(date, titles) ==
    RawItem("class_session", date, Absent, <<>>, <<"Intro">>,
            [i \in 1..Len(titles) |-> SubTask(titles[i], <<>>)], <<>>, <<>>)

GradedDeadline ==
    RawItem("hard_deadline", Oct22, Absent, <<>>, <<>>, <<>>, <<>>,
            <<Deadline(TFinal, Absent, <<>>)>>)

IgnoredItem == RawItem("ignore", Oct22, Absent, <<>>, <<>>, <<>>, <<>>, <<>>)

\* the items the extractor's arrays are drawn from
RawItems ==
    {ClassSession(Oct22, <<TRead13, TRead3>>),
     ClassSession(Oct22, <<TRead3>>),
     ReadingEntry(Oct22, TRead13),
     ReadingEntry(Oct22, TRead3),
     ReadingEntry(Oct29, TRead3),
     ReadingEntry(Oct22, TRead3Lower),
     ReadingEntry(Oct22, TPages15),
     ReadingEntry(Oct22, TPages23),
     ReadingEntry(Oct22, TSyllabus),
     BareReading(Oct22, TRead13),
     GradedDeadline,
     IgnoredItem}

ExtListResponses ==
    {ExtResponse("bare", "array", items) : items \in SeqsUpTo(RawItems, MaxRawItems)}

\* the blocks and session_dates entries the segmenter's object is drawn from
Blocks ==
    {Block(Oct22, 0), Block(Oct29, 0), Block(Oct22, 1), Block(Oct29, 1), Block(Nov5, 2),
     Block(EmptyDate, 1), Block(Dec15, 2)}

SessionInfos ==
    {SessionInfo(1, Oct22), SessionInfo(1, Oct29), SessionInfo(2, Nov5),
     SessionInfo(0, Oct22), SessionInfo(2, EmptyDate), SessionInfo(3, Dec15)}

SegObjectResponses ==
    {SegResponse("bare", "object", blocks, infos) :
        blocks \in SeqsUpTo(Blocks, MaxBlocks),
        infos \in SeqsUpTo(SessionInfos, MaxSessionDates)}

\* documents, each a sequence of lines, each line the sequence of its DATE_REGEX matches
Documents ==
    {<<>>,
     << <<SlashDate(1, 2, 0)>> >>,
     << <<Oct22>>, <<Oct29, SlashDate(13, 45, 0)>> >>}

NoJson == "none"

\* the estimated_hours values the estimator's items carry: absent or null, a
\* string, integers (1 and 0 also for true and false), 2.5, 0.9, -2.5, NaN
HourValues ==
    {Hours("missing", 0), Hours("str", 0), Hours("int", 0), Hours("int", 1),
     Hours("int", 3), Hours("int", -2), Hours("float", 25), Hours("float", 9),
     Hours("float", -25), Hours("nan", 0)}

WorkloadItems ==
    {WorkloadItem(FlatTask(Oct22, "assignment", TFinal, <<>>), h) : h \in HourValues}

WorkloadListResponses ==
    {WorkloadResponse(shape, "array", items) :
        shape \in {"bare", "fenced"}, items \in SeqsUpTo(WorkloadItems, MaxWorkloadItems)}
    \cup {WorkloadResponse("garbage", NoJson, <<>>), WorkloadResponse("bare", "object", <<>>)}

\* the auditor's responses of the two-pass specification: unparsable text, and
\* lists that repeat a (date, type, title) with another description
PassQaResponses ==
    {QaResponse("garbage", NoJson, FALSE, <<>>),
     QaResponse("bare", "object", TRUE,
         <<FlatTask(Oct22, "reading", TRead3, <<>>),
           FlatTask(Oct22, "reading", TRead3, <<"again">>),
           FlatTask(Oct22, "reading", TRead3, <<>>)>>),
     QaResponse("bare", "object", TRUE,
         <<FlatTask(Oct29, "administrative", TSyllabus, <<"first">>),
           FlatTask(Oct22, "reading", TRead3, <<"first">>),
           FlatTask(Oct29, "administrative", TSyllabus, <<>>),
           FlatTask(Nov4, "assignment", TSales, <<>>),
           FlatTask(Oct22, "reading", TRead3, <<>>)>>)}

\* the DATE_REGEX matches the scanned lines are made of: 1/2, 2/2, 13/45, 10/22,
\* 22/10, 1/10, 3/4/24, 0/5, 32/1, 1.2, 22.10.24, "Oct 22", "October 22", "Feb 45"
ScanTokens ==
    {SlashDate(1, 2, 0), SlashDate(2, 2, 0), SlashDate(13, 45, 0), SlashDate(10, 22, 0),
     SlashDate(22, 10, 0), SlashDate(1, 10, 0), SlashDate(3, 4, 24), SlashDate(0, 5, 0),
     SlashDate(32, 1, 0), DotDate(1, 2, 0), DotDate(22, 10, 24), Oct22, LongDate(10, 22),
     ShortDate(2, 45)}

\* texts of two lines, the second without a match or with "Oct 22"
ScanDocuments ==
    {<<line, last>> : line \in SeqsUpTo(ScanTokens, MaxLineTokens),
                      last \in {<<>>, <<Oct22>>}}

\* an entry of assessment_components
Component(name, weight) == [name |-> name, weight |-> weight]

\* the assessment_components of a run: none (also None), or "Final Paper", 30%
AssessmentComponentLists == {<<>>, <<Component(TFinal, "30%")>>}

\* the outcomes of reading the uploaded file
Files == {"text", "short", "unreadable"}

\* the responses the whole-pipeline specification draws from
PipeSegResponses ==
    {SegResponse("raised", NoJson, <<>>, <<>>),
     SegResponse("garbage", NoJson, <<>>, <<>>),
     SegResponse("embedded_bad", NoJson, <<>>, <<>>),
     SegResponse("bare", "array", <<>>, <<>>),
     SegResponse("bare", "object", <<>>, <<SessionInfo(1, Oct22)>>),
     SegResponse("bare", "object", <<Block(Oct22, 1)>>, <<SessionInfo(1, Oct22)>>),
     SegResponse("fenced", "object", <<Block(Oct22, 0), Block(Oct29, 0), Block(Nov5, 0)>>,
                 <<>>)}

PipeExtResponses ==
    {ExtResponse("raised", NoJson, <<>>),
     ExtResponse("garbage", NoJson, <<>>),
     ExtResponse("fenced", "array", <<GradedDeadline>>),
     ExtResponse("bare", "object", <<>>),
     ExtResponse("bare", "array", <<>>),
     ExtResponse("bare", "array", <<GradedDeadline>>),
     ExtResponse("bare", "array", <<IgnoredItem>>),
     ExtResponse("bare", "array", <<ClassSession(Oct29, <<TRead3>>)>>),
     ExtResponse("bare", "array", <<ClassSession(Oct22, <<TFinal>>)>>)}

PipeQaResponses ==
    {QaResponse("raised", NoJson, FALSE, <<>>),
     QaResponse("garbage", NoJson, FALSE, <<>>),
     QaResponse("fenced", "object", TRUE, <<FlatTask(Nov4, "assignment", TSales, <<>>)>>),
     QaResponse("bare", "array", FALSE, <<>>),
     QaResponse("bare", "object", FALSE, <<>>),
     QaResponse("bare", "object", TRUE, <<>>),
     QaResponse("bare", "object", TRUE,
                <<FlatTask(Nov4, "assignment", TSales, <<>>),
                  FlatTask(Nov5, "assignment", TSales, <<>>)>>)}

PipeWorkloadResponses ==
    {WorkloadResponse("raised", NoJson, <<>>),
     WorkloadResponse("garbage", NoJson, <<>>),
     WorkloadResponse("bare", "array",
         <<WorkloadItem(FlatTask(Nov5, "assignment", TSales, <<>>), Hours("nan", 0))>>),
     WorkloadResponse("bare", "array",
         <<WorkloadItem(FlatTask(Nov5, "assignment", TSales, <<>>), Hours("int", -2)),
           WorkloadItem(FlatTask(Nov4, "assignment", TSales, <<>>), Hours("float", -25)),
           WorkloadItem(FlatTask(Oct29, "reading", TRead3, <<>>), Hours("missing", 0))>>),
     WorkloadResponse("bare", "object", <<>>),
     WorkloadResponse("bare", "array", <<>>),
     WorkloadResponse("fenced", "array",
         <<WorkloadItem(FlatTask(Nov5, "assignment", TSales, <<>>), Hours("float", 25))>>),
     WorkloadResponse("bare", "array",
         <<WorkloadItem(FlatTask(Nov5, "assignment", TSales, <<>>), Hours("int", 3)),
           WorkloadItem(FlatTask(Oct29, "reading", TRead3, <<>>), Hours("str", 0))>>)}

----------------------------------------------------------------------------
(* Specifications *)

\* the state on entry of extract_with_crew_ai
Init ==
    /\ pc = "start"
    /\ calls = <<>>
    /\ now_year \in Years
    /\ assessment_components \in AssessmentComponentLists
    /\ indexed_lines = <<>>
    /\ date_candidates = <<>>
    /\ schedule_blocks = <<>>
    /\ session_dates_raw = <<>>
    /\ session_dates_map = EmptyMap
    /\ block_idx = 0
    /\ ext_outputs = <<>>
    /\ all_items = <<>>
    /\ consolidated_items = <<>>
    /\ flattened_items = <<>>
    /\ unique_items = <<>>
    /\ qa_items = <<>>
    /\ latest_items = <<>>
    /\ deduplicated_items = <<>>
    /\ result = Running
    /\ seg_result_raw = NoResult
    /\ qa_result = NoResult
    /\ workload_result = NoResult

Next ==
    \/ \E text \in Documents, available \in BOOLEAN, file \in Files :
           Start(text, available, file)
    \/ \E resp \in PipeSegResponses : Segmentation(resp)
    \/ \E resp \in PipeExtResponses : Extraction(resp)
    \/ \E resp \in PipeQaResponses : Audit(resp)
    \/ \E resp \in PipeWorkloadResponses : Workload(resp)

\* the whole pipeline, over a small set of responses per call
Spec == Init /\ [][Next]_vars

\* the run after the scan found candidates, before the segmentation call
InitSessions ==
    /\ pc = "segmentation"
    /\ calls = <<>>
    /\ now_year \in Years
    /\ assessment_components = <<>>
    /\ indexed_lines = << <<Oct22>>, <<Oct29>>, <<Nov5>> >>
    /\ date_candidates = extract_date_candidates(indexed_lines)
    /\ schedule_blocks = <<>>
    /\ session_dates_raw = <<>>
    /\ session_dates_map = EmptyMap
    /\ block_idx = 0
    /\ ext_outputs = <<>>
    /\ all_items = <<>>
    /\ consolidated_items = <<>>
    /\ flattened_items = <<>>
    /\ unique_items = <<>>
    /\ qa_items = <<>>
    /\ latest_items = <<>>
    /\ deduplicated_items = <<>>
    /\ result = Running
    /\ seg_result_raw = NoResult
    /\ qa_result = NoResult
    /\ workload_result = NoResult

NextSessions == pc = "segmentation" /\ \E resp \in SegObjectResponses : Segmentation(resp)

\* the segmentation step over every bounded segmenter object
SpecSessions == InitSessions /\ [][NextSessions]_vars

\* the run after segmentation returned one block, before its extraction call
InitReadings ==
    /\ pc = "extraction"
    /\ calls = <<"segmentation">>
    /\ now_year \in Years
    /\ assessment_components = <<>>
    /\ indexed_lines = << <<Oct22>> >>
    /\ date_candidates = extract_date_candidates(indexed_lines)
    /\ schedule_blocks = <<Block(Oct22, 1)>>
    /\ session_dates_raw = <<>>
    /\ session_dates_map = BuildSessionDatesMap(<<>>, <<Block(Oct22, 1)>>)
    /\ block_idx = 0
    /\ ext_outputs = <<>>
    /\ all_items = <<>>
    /\ consolidated_items = <<>>
    /\ flattened_items = <<>>
    /\ unique_items = <<>>
    /\ qa_items = <<>>
    /\ latest_items = <<>>
    /\ deduplicated_items = <<>>
    /\ result = Running
    /\ seg_result_raw = SegResponse("bare", "object", <<Block(Oct22, 1)>>, <<>>)
    /\ qa_result = NoResult
    /\ workload_result = NoResult

NextReadings == pc = "extraction" /\ \E resp \in ExtListResponses : Extraction(resp)

\* extraction, consolidation, flattening and dedup pass 1 over every bounded array
SpecReadings == InitReadings /\ [][NextReadings]_vars

\* the run after one block yielded one graded deadline, before the audit call
InitTitles ==
    /\ pc = "audit"
    /\ calls = <<"segmentation", "extraction">>
    /\ now_year \in Years
    /\ assessment_components = <<>>
    /\ indexed_lines = << <<Oct22>> >>
    /\ date_candidates = extract_date_candidates(indexed_lines)
    /\ schedule_blocks = <<Block(Oct22, 1)>>
    /\ session_dates_raw = <<>>
    /\ session_dates_map = BuildSessionDatesMap(<<>>, <<Block(Oct22, 1)>>)
    /\ block_idx = 1
    /\ ext_outputs = <<ExtResponse("bare", "array", <<GradedDeadline>>)>>
    /\ all_items = <<GradedDeadline>>
    /\ consolidated_items = consolidate_overlapping_readings(<<GradedDeadline>>)
    /\ flattened_items = Flatten(consolidated_items)
    /\ unique_items = ExactKeyDedup(flattened_items)
    /\ qa_items = <<>>
    /\ latest_items = <<>>
    /\ deduplicated_items = <<>>
    /\ result = Running
    /\ seg_result_raw = SegResponse("bare", "object", <<Block(Oct22, 1)>>, <<>>)
    /\ qa_result = NoResult
    /\ workload_result = NoResult

NextTitles == pc = "audit" /\ \E resp \in QaListResponses : Audit(resp)

\* the audit step and both post-audit dedup passes over every bounded validated_items
SpecTitles == InitTitles /\ [][NextTitles]_vars

NextScanner ==
    pc = "start" /\ \E text \in ScanDocuments : Start(text, TRUE, "text")

\* the entry and the date candidate scan over every bounded text
SpecScanner == Init /\ [][NextScanner]_vars

NextPasses ==
    \/ pc = "extraction" /\ \E resp \in ExtListResponses : Extraction(resp)
    \/ pc = "audit" /\ \E resp \in PassQaResponses : Audit(resp)

\* extraction up to dedup pass 1 over every bounded array, then the audit step with
\* the title dedup and dedup pass 2
SpecPasses == InitReadings /\ [][NextPasses]_vars

\* the run after the auditor's text failed to parse, before the workload call
InitWorkload ==
    /\ pc = "workload"
    /\ calls = <<"segmentation", "extraction", "audit">>
    /\ now_year \in Years
    /\ assessment_components = <<>>
    /\ indexed_lines = << <<Oct22>> >>
    /\ date_candidates = extract_date_candidates(indexed_lines)
    /\ schedule_blocks = <<Block(Oct22, 1)>>
    /\ session_dates_raw = <<>>
    /\ session_dates_map = BuildSessionDatesMap(<<>>, <<Block(Oct22, 1)>>)
    /\ block_idx = 1
    /\ ext_outputs = <<ExtResponse("bare", "array", <<GradedDeadline>>)>>
    /\ all_items = <<GradedDeadline>>
    /\ consolidated_items = consolidate_overlapping_readings(<<GradedDeadline>>)
    /\ flattened_items = Flatten(consolidated_items)
    /\ unique_items = ExactKeyDedup(flattened_items)
    /\ qa_items = unique_items
    /\ latest_items = deduplicate_by_title_keep_latest(qa_items, now_year)
    /\ deduplicated_items = ExactKeyDedup(latest_items)
    /\ result = Running
    /\ seg_result_raw = SegResponse("bare", "object", <<Block(Oct22, 1)>>, <<>>)
    /\ qa_result = QaResponse("garbage", NoJson, FALSE, <<>>)
    /\ workload_result = NoResult

NextWorkload == pc = "workload" /\ \E resp \in WorkloadListResponses : Workload(resp)

\* the workload step over every bounded estimator array
SpecWorkload == InitWorkload /\ [][NextWorkload]_vars

----------------------------------------------------------------------------
(* Properties of the title-based latest-date dedup (SpecTitles) *)

GradedTypeNames == {"assignment", "exam", "project", "assessment"}

\* the audit step has run: qa_items went through the title-based dedup
TitlesDeduped == pc = "workload"

\* the items of `items` in the group of graded item `it`
SameGroup(items, it) ==
    SelectSeq(items, LAMBDA o : o.type = it.type
                                /\ Lower(Strip(o.title)) = Lower(Strip(it.title)))

Parsed(it) == parse_date_for_sorting(it.date, now_year)

SalesOn(d) == FlatTask(d, "assignment", TSales, <<>>)

\* C1: a graded task listed under one title on Oct 29 (introduction), Nov 4 (due
\* date) and Nov 5 (past-due reminder) is kept once, at the due date Nov 4.
C1_KeepsActualDueDate ==
    (TitlesDeduped /\ Len(qa_items) = 3
        /\ Range(qa_items) = {SalesOn(Oct29), SalesOn(Nov4), SalesOn(Nov5)})
    => latest_items = <<SalesOn(Nov4)>>

C3_NonGradedKept ==
    TitlesDeduped =>
        SelectSeq(latest_items, LAMBDA it : it.type \in {"reading", "administrative"})
        = SelectSeq(qa_items, LAMBDA it : it.type \in {"reading", "administrative"})

\* one reading title on two dates is kept twice while a graded group collapses
C3_Witness ==
    /\ TitlesDeduped
    /\ qa_items = <<FlatTask(Oct22, "reading", TRead3, <<>>), SalesOn(Oct29),
                    FlatTask(Oct29, "reading", TRead3, <<>>)>>
    /\ Len(latest_items) = 3

\* the digit runs of the date give a month (and day) of 2024
FallbackNumbersValid(d) ==
    /\ Nums(d) # <<>>
    /\ Nums(d)[1] \in 1..12
    /\ (Len(Nums(d)) > 1 => Nums(d)[2] \in 1..DaysIn(2024, Nums(d)[1]))

\* C4 as stated: a date that matches none of the supported forms sorts as the
\* minimum, and an item with such a date is never kept when its group holds an
\* item with a date of a supported form.
C4_UnparsableSortsMin ==
    TitlesDeduped =>
        /\ \A it \in Range(qa_items) : ~StrptimeOk(it.date) => Parsed(it) = DateTimeMin
        /\ \A kept \in Range(latest_items) :
               (kept.type \in GradedTypeNames /\ ~StrptimeOk(kept.date))
               => \A o \in Range(SameGroup(qa_items, kept)) : ~StrptimeOk(o.date)

\* C4 as amended: a date that matches none of the supported forms sorts as the
\* minimum unless its digit runs give a month (and day) of 2024; an item whose
\* date sorts as the minimum is never kept when its group holds an item that sorts
\* later.
C4_DigitlessSortsMin ==
    TitlesDeduped =>
        /\ \A it \in Range(qa_items) :
               (~StrptimeOk(it.date) /\ ~FallbackNumbersValid(it.date))
               => Parsed(it) = DateTimeMin
        /\ \A kept \in Range(latest_items) :
               (kept.type \in GradedTypeNames /\ Parsed(kept) = DateTimeMin)
               => \A o \in Range(SameGroup(qa_items, kept)) : Parsed(o) = DateTimeMin

\* "TBD" listed first loses to "Oct 29" of the same group
C4_Witness ==
    /\ TitlesDeduped
    /\ qa_items = <<SalesOn(Tbd), SalesOn(Oct29)>>
    /\ latest_items = <<SalesOn(Oct29)>>

----------------------------------------------------------------------------
(* Properties of reading consolidation and flattening (SpecReadings) *)

\* the extraction loop is over and consolidation, flattening and pass 1 have run
ConsolidationRan ==
    block_idx = Len(schedule_blocks) /\ block_idx > 0 /\ all_items # <<>>

\* the chapter set or the page set of title t1 is a strict subset of that of t2
StrictlyWithin(t1, t2) ==
    \/ /\ parse_chapters(t1) # {}
       /\ parse_chapters(t1) \subseteq parse_chapters(t2)
       /\ parse_chapters(t1) # parse_chapters(t2)
    \/ /\ parse_pages(t1) # {}
       /\ parse_pages(t1) \subseteq parse_pages(t2)
       /\ parse_pages(t1) # parse_pages(t2)

\* the readings the extractor's output carries, as reading-typed entries and as
\* sub-items of class sessions
ReadingsCarried ==
    {[date |-> it.date_string, title |-> it.title] :
        it \in {x \in Range(all_items) : x.type = "reading"}}
    \cup UNION {{[date |-> it.date_string, title |-> t.title] :
                    t \in Range(it.prep_tasks) \cup Range(it.mandatory_tasks)} :
                it \in {x \in Range(all_items) : x.kind = "class_session"}}

InFlattened(r) ==
    \E t \in Range(flattened_items) :
        t.type = "reading" /\ t.date = r.date /\ t.title = r.title

\* C5: of two readings the extractor's output carries on one date, one strictly
\* within the other by chapters or by pages, the narrower is absent from the
\* flattened list and the wider (if not itself within a third) is present.
C5_NarrowerReadingAbsent ==
    ConsolidationRan =>
        \A r1, r2 \in ReadingsCarried :
            (r1.date = r2.date /\ StrictlyWithin(r1.title, r2.title))
            => /\ ~InFlattened(r1)
               /\ (\A r3 \in ReadingsCarried :
                       ~(r3.date = r2.date /\ StrictlyWithin(r2.title, r3.title)))
                  => InFlattened(r2)

IsReading(item) ==
    \/ item.type = "reading"
    \/ item.kind = "class_session" /\ Len(item.prep_tasks) + Len(item.mandatory_tasks) > 0

\* C6: an item consolidation drops is a reading, and another reading of the same
\* date has a chapter set or page set strictly containing its own; so no reading
\* is dropped for a reading of another date, or with no parsable range.
C6_DroppedOnlyIfEncompassed ==
    ConsolidationRan =>
        \A i \in 1..Len(all_items) :
            Count(consolidated_items, all_items[i]) < Count(all_items, all_items[i])
            => /\ IsReading(all_items[i])
               /\ \E j \in 1..Len(all_items) :
                      /\ j # i
                      /\ IsReading(all_items[j])
                      /\ all_items[j].date_string = all_items[i].date_string
                      /\ StrictlyWithin(all_items[i].title, all_items[j].title)

\* "Read Chapter 3" is dropped on Oct 22 beside "Read Chapters 1-3" and kept on
\* Oct 29; the reading without a range is kept
C6_Witness ==
    /\ ConsolidationRan
    /\ all_items = <<ReadingEntry(Oct22, TRead3), ReadingEntry(Oct22, TRead13),
                     ReadingEntry(Oct29, TRead3)>>
    /\ consolidated_items = <<ReadingEntry(Oct22, TRead13), ReadingEntry(Oct29, TRead3)>>

----------------------------------------------------------------------------
(* Properties of the session-date map (SpecSessions) *)

\* the map is built and the run goes on to the extraction loop
MapBuilt == pc = "extraction" /\ block_idx = 0

\* a session_dates entry Strategy 1 writes
WritesEntry(e) == e.session_number # 0 /\ e.date # EmptyDate

\* C7: a session number keeps the date of its first writer: the first
\* session_dates entry naming it decides its date, whatever follows.
C7_FirstWriterWins ==
    MapBuilt =>
        \A i \in 1..Len(session_dates_raw) :
            LET e == session_dates_raw[i]
            IN  (WritesEntry(e)
                 /\ \A j \in 1..(i - 1) :
                        ~(WritesEntry(session_dates_raw[j])
                          /\ session_dates_raw[j].session_number = e.session_number))
                => /\ e.session_number \in DOMAIN session_dates_map
                   /\ session_dates_map[e.session_number] = e.date

\* C8: explicit numbers of blocks are mapped before any positional number: a
\* block's session_number that session_dates does not map gets the date of the
\* first block carrying that number, whatever the order of the blocks.
C8_ExplicitBeforePositional ==
    MapBuilt =>
        \A j \in 1..Len(schedule_blocks) :
            LET b == schedule_blocks[j]
            IN  (/\ b.session_number # 0
                 /\ b.date_string # EmptyDate
                 /\ \A e \in Range(session_dates_raw) :
                        ~(WritesEntry(e) /\ e.session_number = b.session_number)
                 /\ \A k \in 1..(j - 1) :
                        ~(schedule_blocks[k].session_number = b.session_number
                          /\ schedule_blocks[k].date_string # EmptyDate))
                => /\ b.session_number \in DOMAIN session_dates_map
                   /\ session_dates_map[b.session_number] = b.date_string

----------------------------------------------------------------------------
(* Properties of the run as a whole (Spec) *)

Failed == pc = "done" /\ ~result.success /\ result.items_with_workload = <<>>

\* C9: no date candidates, no schedule blocks, no extracted items or no tasks
\* after flattening and pass 1 each end the run with success = false, no items,
\* and no call of a later stage.
C9_EmptyStagesEndRun ==
    /\ (pc # "start" /\ date_candidates = <<>>) => (Failed /\ calls = <<>>)
    /\ (calls # <<>> /\ schedule_blocks = <<>>) => (Failed /\ calls = <<"segmentation">>)
    /\ (block_idx = Len(schedule_blocks) /\ block_idx > 0 /\ all_items = <<>>)
       => (Failed /\ "audit" \notin Range(calls) /\ "workload" \notin Range(calls))
    /\ (ConsolidationRan /\ unique_items = <<>>)
       => (Failed /\ "audit" \notin Range(calls) /\ "workload" \notin Range(calls))

\* every block's items were of kind ignore: the run ended before the audit
C9_Witness ==
    /\ pc = "done"
    /\ Len(schedule_blocks) = 3
    /\ all_items = <<IgnoredItem, IgnoredItem>>
    /\ result = Failure("No deadlines found after flattening")
    /\ calls = <<"segmentation", "extraction", "extraction", "extraction">>

\* the response is a JSON array
IsJsonArray(resp) == resp.shape = "bare" /\ resp.json = "array"

\* C10: a block whose response is not a JSON array adds nothing and is called
\* once; the items of the other blocks are all kept, in block order; when another
\* block gave a task and no call raised, the run goes on to the audit.
C10_BlockFailureIsolated ==
    /\ Len(ext_outputs) = block_idx
    /\ Count(calls, "extraction") = block_idx
    /\ all_items = Concat([k \in 1..Len(ext_outputs) |->
                              IF IsJsonArray(ext_outputs[k])
                              THEN ext_outputs[k].items ELSE <<>>])
    /\ (/\ block_idx = Len(schedule_blocks)
        /\ \A k \in 1..Len(ext_outputs) : ~Raised(ext_outputs[k])
        /\ \E k \in 1..Len(ext_outputs) : ~IsJsonArray(ext_outputs[k])
        /\ \E k \in 1..Len(ext_outputs) :
               IsJsonArray(ext_outputs[k]) /\ GradedDeadline \in Range(ext_outputs[k].items))
       => (pc = "audit" \/ "audit" \in Range(calls))

\* the second of three blocks failed to parse; the items of the first and the
\* third block are kept and the run is at the audit
C10_Witness ==
    /\ pc = "audit"
    /\ Len(ext_outputs) = 3
    /\ ext_outputs[2].shape = "garbage"
    /\ all_items = <<GradedDeadline, ClassSession(Oct29, <<TRead3>>)>>
    /\ calls = <<"segmentation", "extraction", "extraction", "extraction">>

----------------------------------------------------------------------------
(* Properties of the response handling (Spec) *)

AuditCalled == "audit" \in Range(calls)

WorkloadCalled == "workload" \in Range(calls)

\* the auditor's text is a JSON object with a validated_items list
ExpectedAudit(resp) == LoadsOk(resp) /\ resp.json = "object" /\ resp.has_validated

\* the run ended in the audit step
EndedAtAudit == pc = "done" /\ AuditCalled /\ ~WorkloadCalled

\* C11: whenever the auditor returned text that is not the expected object
\* (unparsable, or JSON of another shape), the task list after the audit is the
\* pre-audit list and the run goes on to the workload call.
C11_AuditFailureNeverBlocks ==
    (AuditCalled /\ ~Raised(qa_result) /\ ~ExpectedAudit(qa_result))
        => (qa_items = unique_items /\ ~EndedAtAudit)

SegmentationCalled == "segmentation" \in Range(calls)

\* the response is text that holds no JSON value, also after fallback extraction
NotJson(resp) == ~Raised(resp) /\ resp.json = NoJson

\* the tasks of dedup pass 2, each with the default of 5 hours
DefaultHours(items) ==
    [i \in 1..Len(items) |-> [task |-> items[i], estimated_hours |-> 5]]

SomeCallRaised ==
    \/ Raised(seg_result_raw)
    \/ \E k \in 1..Len(ext_outputs) : Raised(ext_outputs[k])
    \/ Raised(qa_result)
    \/ Raised(workload_result)

\* C13: no exception leaves the function: the run is always at one of its steps
\* or has returned; a returned failure carries an error string and no items;
\* a raised call, an unreadable or too short document and a segmenter's JSON of
\* another shape each end the run with such a failure.
C13_FailuresAreValues ==
    /\ pc \in {"start", "segmentation", "extraction", "audit", "workload", "done"}
    /\ (pc = "done" /\ ~result.success)
           => (result.error \notin {"", Running.error} /\ result.items_with_workload = <<>>)
    /\ SomeCallRaised => (Failed /\ result.error = "exception")
    /\ (pc = "done" /\ calls = <<>>) => Failed
    /\ (SegmentationCalled /\ LoadsOk(seg_result_raw) /\ seg_result_raw.json # "object")
           => Failed

\* the workload call, the last of the run, raised: the run returned a failure
C13_Witness ==
    /\ Raised(workload_result)
    /\ calls = <<"segmentation", "extraction", "audit", "workload">>
    /\ result = Failure("exception")
    /\ deduplicated_items # <<>>

\* the calls of a complete run over n schedule blocks
ExpectedCalls(n) ==
    <<"segmentation">> \o [k \in 1..n |-> "extraction"] \o <<"audit", "workload">>

IsPrefix(s, t) == Len(s) <= Len(t) /\ s = SubSeq(t, 1, Len(s))

\* C14: the calls made so far are an initial part of: segmentation, one
\* extraction per schedule block in block order, audit, workload; no call is made
\* twice, also after a response that failed to parse; a successful run made all
\* of them.
C14_CallsInOrderOnce ==
    /\ IF SegmentationCalled /\ SegParse(seg_result_raw) = "ok"
       THEN IsPrefix(calls, ExpectedCalls(Len(schedule_blocks)))
       ELSE calls \in {<<>>, <<"segmentation">>}
    /\ Count(calls, "extraction") = block_idx
    /\ block_idx <= Len(schedule_blocks)
    /\ \A k \in 1..Len(calls) :
           calls[k] = "extraction" => k = 1 + Count(SubSeq(calls, 1, k), "extraction")
    /\ (pc = "done" /\ result.success) => calls = ExpectedCalls(Len(schedule_blocks))

\* a run over three blocks in which the second block's response and the
\* auditor's response failed to parse still made each call once
C14_Witness ==
    /\ pc = "done"
    /\ result.success
    /\ Len(schedule_blocks) = 3
    /\ NotJson(ext_outputs[2])
    /\ NotJson(qa_result)
    /\ calls = <<"segmentation", "extraction", "extraction", "extraction", "audit",
                 "workload">>

\* the response is valid JSON, bare, inside a fenced block or inside other text
HoldsJson(resp) == resp.shape \in {"bare", "fenced", "embedded"} /\ resp.json # NoJson

\* C15: each of the four call sites takes the JSON value out of a response that
\* holds one, whether bare, fenced or surrounded by text: the segmenter's object
\* gives the schedule blocks, every extractor array adds its items, the
\* auditor's object gives validated_items, and the estimator's array gives the
\* returned items.
C15_UniformLenientParsing ==
    /\ (SegmentationCalled /\ HoldsJson(seg_result_raw) /\ seg_result_raw.json = "object")
           => schedule_blocks = seg_result_raw.schedule_blocks
    /\ all_items = Concat([k \in 1..Len(ext_outputs) |->
                              IF HoldsJson(ext_outputs[k]) /\ ext_outputs[k].json = "array"
                              THEN ext_outputs[k].items ELSE <<>>])
    /\ (/\ AuditCalled
        /\ HoldsJson(qa_result)
        /\ qa_result.json = "object"
        /\ qa_result.has_validated)
           => qa_items = qa_result.validated_items
    /\ (/\ pc = "done"
        /\ result.success
        /\ HoldsJson(workload_result)
        /\ workload_result.json = "array")
           => [i \in 1..Len(result.items_with_workload) |->
                  result.items_with_workload[i].task]
              = [i \in 1..Len(workload_result.items) |-> workload_result.items[i].task]

----------------------------------------------------------------------------
(* Properties of the workload step (Spec) *)

Succeeded == pc = "done" /\ result.success

\* the tasks of the returned items, without their hours
ReturnedTasks ==
    [i \in 1..Len(result.items_with_workload) |-> result.items_with_workload[i].task]

\* C16: the items of a successful result are the tasks that survived dedup
\* pass 2, in the same order, none missing and none added.
C16_WorkloadKeepsTasks == Succeeded => ReturnedTasks = deduplicated_items

\* the estimated_hours the i-th returned item had before the normalisation loop
RawHours(i) ==
    IF workload_result.shape \in {"bare", "fenced"} /\ workload_result.json = "array"
    THEN workload_result.items[i].estimated_hours
    ELSE Hours("missing", 0)

\* n is the float v/10 with its fraction cut off
IsTruncationOf(n, v) ==
    IF v >= 0 THEN 10 * n <= v /\ v < 10 * n + 10
    ELSE 10 * n >= v /\ v > 10 * n - 10

RECURSIVE HoursUpTo(_)
\* estimated_hours of the first n returned items, added up
HoursUpTo(n) ==
    IF n = 0 THEN 0 ELSE result.items_with_workload[n].estimated_hours + HoursUpTo(n - 1)

C18_HoursNotNegative ==
    Succeeded =>
        \A i \in 1..Len(result.items_with_workload) :
            result.items_with_workload[i].estimated_hours \in Nat

----------------------------------------------------------------------------
(* Properties of the exact-key passes (SpecPasses) *)

\* no earlier item of the list has the key of the i-th
IsFirstOfKey(items, i) ==
    \A j \in 1..(i - 1) : ExactKey(items[j]) # ExactKey(items[i])

\* the index at which the key of `it` first appears in the list
FirstIndexOf(items, it) ==
    CHOOSE i \in 1..Len(items) : ExactKey(items[i]) = ExactKey(it) /\ IsFirstOfKey(items, i)

\* output is the first item of every key of input, in the order of first appearance
KeepsFirstOfEachKey(input, output) ==
    /\ \A i \in 1..Len(input) : IsFirstOfKey(input, i) => input[i] \in Range(output)
    /\ \A k \in 1..Len(output) :
           \E i \in 1..Len(input) : IsFirstOfKey(input, i) /\ output[k] = input[i]
    /\ \A k, l \in 1..Len(output) :
           k < l => /\ ExactKey(output[k]) # ExactKey(output[l])
                    /\ FirstIndexOf(input, output[k]) < FirstIndexOf(input, output[l])

\* C19: each exact-key pass (pass 1 from flattened_items to unique_items, pass 2
\* from the title-deduplicated list to deduplicated_items) outputs, for every
\* (date, type, title), the first input item with that key and no other, in the
\* input's order of first appearance.
C19_FirstOfEachKeyKept ==
    /\ KeepsFirstOfEachKey(flattened_items, unique_items)
    /\ KeepsFirstOfEachKey(latest_items, deduplicated_items)

\* both passes dropped a later item; pass 2 kept two keys, each by its first item,
\* whose description differs from the dropped one's
C19_Witness ==
    /\ pc = "workload"
    /\ Len(unique_items) < Len(flattened_items)
    /\ Len(latest_items) = 5
    /\ deduplicated_items = <<FlatTask(Nov4, "assignment", TSales, <<>>),
                              FlatTask(Oct29, "administrative", TSyllabus, <<"first">>),
                              FlatTask(Oct22, "reading", TRead3, <<"first">>)>>

\* C20: the exact-key pass applied to a list it has produced returns that list.
C20_ExactKeyDedupIdempotent ==
    /\ ExactKeyDedup(unique_items) = unique_items
    /\ ExactKeyDedup(deduplicated_items) = deduplicated_items

\* pass 1 and pass 2 each had duplicates to drop and left more than one item
C20_Witness ==
    /\ pc = "workload"
    /\ Len(unique_items) < Len(flattened_items)
    /\ Len(unique_items) > 1
    /\ Len(deduplicated_items) < Len(latest_items)
    /\ Len(deduplicated_items) > 1

\* the identity of a task: date, type and the lowercased, trimmed title
IdentityKey(it) == <<it.date, it.type, NormalizedTitle(it)>>

NoSharedIdentity(items) ==
    \A i, j \in 1..Len(items) : i < j => IdentityKey(items[i]) # IdentityKey(items[j])

\* C21: after dedup pass 1 and after dedup pass 2 no two tasks of the list share
\* (date, type, normalized title): titles that differ only in case or in
\* surrounding white space count as the same task.
C21_NoSharedIdentity ==
    /\ NoSharedIdentity(unique_items)
    /\ NoSharedIdentity(deduplicated_items)

----------------------------------------------------------------------------
(* Properties of the date candidate scanner (SpecScanner) *)

ScanRan == pc # "start" /\ indexed_lines # <<>>

IsNumericToken(tok) == tok.f \in {"slash", "dot"}

\* d/d: two single digits 1..9 around a slash, nothing else
IsBareFraction(tok) ==
    tok.f = "slash" /\ tok.y = 0 /\ tok.a \in 1..9 /\ tok.b \in 1..9

\* a numeric token whose first number is outside 1..31 or second outside 1..12
IsOutOfRange(tok) ==
    IsNumericToken(tok) /\ ~(tok.a \in 1..31 /\ tok.b \in 1..12)

\* every match of the text with its line index, in text order
AllMatches ==
    Concat([i \in 1..Len(indexed_lines) |->
               [k \in 1..Len(indexed_lines[i]) |->
                   [date_string |-> indexed_lines[i][k], line_index |-> i - 1]]])

\* C22: no emitted candidate is a bare single-digit fraction d/d or a numeric
\* token with first number outside 1..31 or second number outside 1..12; every
\* other match of a line is emitted, in text order with its line index.
C22_ScannerFilters ==
    ScanRan =>
        /\ \A k \in 1..Len(date_candidates) :
               /\ ~IsBareFraction(date_candidates[k].date_string)
               /\ ~IsOutOfRange(date_candidates[k].date_string)
        /\ date_candidates =
               SelectSeq(AllMatches,
                         LAMBDA c : ~IsBareFraction(c.date_string)
                                    /\ ~IsOutOfRange(c.date_string))

\* of the line "1/2 ... 22/10" and the line "Oct 22", 22/10 and Oct 22 are emitted
C22_Witness ==
    /\ ScanRan
    /\ indexed_lines = << <<SlashDate(1, 2, 0), SlashDate(22, 10, 0)>>, <<Oct22>> >>
    /\ date_candidates = <<[date_string |-> SlashDate(22, 10, 0), line_index |-> 0],
                           [date_string |-> Oct22, line_index |-> 1]>>

----------------------------------------------------------------------------
(* Forward references: a block whose text dues a task "by class #N"        *)
(* (SpecForward)                                                           *)

Nov19 == ShortDate(11, 19)

\* a schedule block whose raw_block names session due_session as the due point
\* of its one task
BlockDueBy(date_string, session_number, due_session) ==
    [date_string |-> date_string, session_number |-> session_number,
     due_session |-> due_session]

\* "Read Chapters 1-3 pp. 2-3" and "Read Chapter 3 pp. 1-5": the first has the
\* wider chapter set, the second the wider page set
TCh13Pages23 == <<"Read", "Chapters", "1", "-", "3", "pp.", "2", "-", "3">>
TCh3Pages15 == <<"Read", "Chapter", "3", "pp.", "1", "-", "5">>

\* a title of white space only
TBlank == <<" ">>

\* a class session with a blank-titled and a titled preparatory entry, a
\* mandatory entry and an embedded hard deadline
FullSession ==
    RawItem("class_session", Oct22, Absent, <<>>, <<"Intro">>,
            <<SubTask(TBlank, <<>>), SubTask(TRead13, <<>>)>>,
            <<SubTask(TSyllabus, <<>>)>>,
            <<Deadline(TFinal, Absent, <<>>)>>)

\* the items the extractor may return for such a block: its task dated with the
\* block's date or with a session's date, as a deadline or as a class reading
ForwardItems ==
    {RawItem("hard_deadline", d, Absent, <<>>, <<>>, <<>>, <<>>,
             <<Deadline(TRead13, Absent, <<>>)>>) : d \in {Oct22, Nov5, Nov19}}
    \cup {ClassSession(Oct22, <<TRead13>>), ClassSession(Nov5, <<TRead13>>), IgnoredItem,
          FullSession, ReadingEntry(Oct22, TCh13Pages23), ReadingEntry(Oct22, TCh3Pages15)}

\* the run after segmentation returned the block of Oct 22, whose text says
\* "by class #3" or "by class #4", and the session dates 1: Oct 22, 3: Nov 5,
\* 5: Nov 19
InitForward ==
    /\ pc = "extraction"
    /\ calls = <<"segmentation">>
    /\ now_year \in Years
    /\ assessment_components = <<>>
    /\ indexed_lines = << <<Oct22>>, <<Nov5>>, <<Nov19>> >>
    /\ date_candidates = extract_date_candidates(indexed_lines)
    /\ \E n \in {3, 4} : schedule_blocks = <<BlockDueBy(Oct22, 1, n)>>
    /\ session_dates_raw = <<SessionInfo(1, Oct22), SessionInfo(3, Nov5), SessionInfo(5, Nov19)>>
    /\ session_dates_map = BuildSessionDatesMap(session_dates_raw, schedule_blocks)
    /\ block_idx = 0
    /\ ext_outputs = <<>>
    /\ all_items = <<>>
    /\ consolidated_items = <<>>
    /\ flattened_items = <<>>
    /\ unique_items = <<>>
    /\ qa_items = <<>>
    /\ latest_items = <<>>
    /\ deduplicated_items = <<>>
    /\ result = Running
    /\ seg_result_raw = SegResponse("bare", "object", schedule_blocks, session_dates_raw)
    /\ qa_result = NoResult
    /\ workload_result = NoResult

NextForward ==
    pc = "extraction"
    /\ \E items \in SeqsUpTo(ForwardItems, MaxRawItems) :
           Extraction(ExtResponse("bare", "array", items))

\* the extraction of a forward-referencing block over every bounded array
SpecForward == InitForward /\ [][NextForward]_vars

\* C23: every task that reaches the flattened list from a block whose text says
\* "by class #N" is dated with the session-date map's entry for N, not with the
\* block's own date; when N is not in the map no task reaches the list.
C23_ForwardReferenceResolved ==
    (ConsolidationRan /\ Len(schedule_blocks) = 1 /\ "due_session" \in DOMAIN schedule_blocks[1])
    => \A t \in Range(flattened_items) :
           /\ schedule_blocks[1].due_session \in DOMAIN session_dates_map
           /\ t.date = session_dates_map[schedule_blocks[1].due_session]

----------------------------------------------------------------------------
(* Types of graded tasks (Spec) *)

\* the title of task t is the name of a supplied assessment component
MatchesComponent(t) ==
    \E k \in 1..Len(assessment_components) :
        Lower(Strip(t.title)) = Lower(Strip(assessment_components[k].name))

\* C24: no task of the flattened list and no task of the final result whose
\* title matches the name of a supplied assessment component has type "reading".
C24_GradedNeverReading ==
    /\ \A t \in Range(flattened_items) : MatchesComponent(t) => t.type # "reading"
    /\ \A t \in Range(ReturnedTasks) : MatchesComponent(t) => t.type # "reading"

----------------------------------------------------------------------------
(* Dates the segmenter returns and the scanner's candidates (SpecSessions) *)

\* the date strings of the scanner's candidates
CandidateStrings ==
    {date_candidates[k].date_string : k \in 1..Len(date_candidates)}

\* C25: every schedule block the later stages use, and every entry of the
\* session-date map, carries a date string that is one of the scanner's date
\* candidates (a block without a date string carries none).
C25_NoInventedDates ==
    MapBuilt =>
        /\ \A k \in 1..Len(schedule_blocks) :
               schedule_blocks[k].date_string \in CandidateStrings \cup {EmptyDate}
        /\ \A n \in DOMAIN session_dates_map : session_dates_map[n] \in CandidateStrings

----------------------------------------------------------------------------
(* Number and dates of the flattened tasks (SpecForward) *)

\* the entries of prep_tasks / mandatory_tasks whose title is not blank
Titled(tasks) == SelectSeq(tasks, LAMBDA t : Strip(t.title) # <<>>)

\* the date of each expected task, item by item: one per hard_deadlines entry of
\* a hard_deadline item; one per counted prep_tasks entry, counted
\* mandatory_tasks entry and hard_deadlines entry of a class_session item, where
\* the counted entries are the titled ones (titled_only) or all of them
ExpectedDates(items, titled_only) ==
    Concat([i \in 1..Len(items) |->
        LET Counted(tasks) == IF titled_only THEN Titled(tasks) ELSE tasks
            n == IF items[i].kind = "hard_deadline" THEN Len(items[i].hard_deadlines)
                 ELSE IF items[i].kind = "class_session"
                 THEN Len(Counted(items[i].prep_tasks))
                      + Len(Counted(items[i].mandatory_tasks))
                      + Len(items[i].hard_deadlines)
                 ELSE 0
        IN  [k \in 1..n |-> items[i].date_string]])

\* the dates of the flattened tasks, in order
FlatDates == [k \in 1..Len(flattened_items) |-> flattened_items[k].date]

\* C26 as stated: one task per hard_deadlines entry, per prep_tasks entry and per
\* mandatory_tasks entry, each dated with its item's date_string; other kinds
\* yield none.
C26_OneTaskPerEntry ==
    ConsolidationRan => FlatDates = ExpectedDates(consolidated_items, FALSE)

\* C26 amended: as above, with one task per prep_tasks and mandatory_tasks entry
\* whose title is not blank.
C26_OneTaskPerTitledEntry ==
    ConsolidationRan => FlatDates = ExpectedDates(consolidated_items, TRUE)

\* the session with a blank-titled entry flattens to three tasks, before a
\* deadline of Nov 5 and an ignored item
C26_Witness ==
    /\ ConsolidationRan
    /\ consolidated_items =
           <<FullSession,
             RawItem("hard_deadline", Nov5, Absent, <<>>, <<>>, <<>>, <<>>,
                     <<Deadline(TRead13, Absent, <<>>)>>),
             IgnoredItem>>
    /\ FlatDates = <<Oct22, Oct22, Oct22, Nov5>>

----------------------------------------------------------------------------
(* Readings that contain each other (SpecForward) *)

\* C27: whenever consolidation drops a reading item, a reading item of the same
\* date whose chapter set or page set strictly contains the dropped one's is in
\* the output; so consolidation never removes every reading of a date.
C27_DroppedHasKeptContainer ==
    ConsolidationRan =>
        \A i \in 1..Len(all_items) :
            Count(consolidated_items, all_items[i]) < Count(all_items, all_items[i])
            => \E k \in 1..Len(consolidated_items) :
                   /\ IsReading(consolidated_items[k])
                   /\ consolidated_items[k].date_string = all_items[i].date_string
                   /\ StrictlyWithin(all_items[i].title, consolidated_items[k].title)

----------------------------------------------------------------------------
(* Successful results (Spec) *)

\* C28: a result with success = true holds at least one item, whatever lists the
\* auditor and the workload estimator returned.
C28_SuccessHasItems ==
    Succeeded => result.items_with_workload # <<>>

----------------------------------------------------------------------------
(* The list handed to the workload estimator (SpecTitles) *)

\* C29: the list handed to the workload estimator holds no two graded items with
\* the same (type, lowercased and trimmed title) and no two items with the same
\* (date, type, title), whatever list the auditor returned.
C29_EstimatorInputDeduplicated ==
    pc = "workload" =>
        \A i, j \in 1..Len(deduplicated_items) :
            i < j =>
                LET x == deduplicated_items[i]
                    y == deduplicated_items[j]
                IN  /\ ~(/\ x.type \in GradedTypeNames
                         /\ x.type = y.type
                         /\ Lower(Strip(x.title)) = Lower(Strip(y.title)))
                    /\ ~(x.date = y.date /\ x.type = y.type /\ x.title = y.title)

\* the auditor returned the task three times, once padded and in another case
\* on a later date: the latest one is handed on
C29_Witness ==
    /\ pc = "workload"
    /\ qa_items = <<SalesOn(Nov5), FlatTask(Nov12, "assignment", TSalesPadded, <<>>),
                    SalesOn(Nov5)>>
    /\ deduplicated_items = <<FlatTask(Nov12, "assignment", TSalesPadded, <<>>)>>

----------------------------------------------------------------------------
(* Numeric dates in the scanner and in the date sorter (SpecTitles) *)

\* a numeric token A/B without a year that is_valid_date_token accepts
AcceptedNumeric(d) == d.f = "slash" /\ d.y = 0 /\ is_valid_date_token(d)

\* C30: of two graded items of one dedup group dated with accepted numeric tokens
\* A/B, the one whose date is earlier, with A read as the day and B as the month
\* as is_valid_date_token reads them, is not the one kept.
C30_NumericDatesAgree ==
    pc = "workload" =>
        \A i, j \in 1..Len(qa_items) :
            LET x == qa_items[i]
                y == qa_items[j]
            IN  (/\ x.type \in GradedTypeNames
                 /\ x.type = y.type
                 /\ Lower(Strip(x.title)) = Lower(Strip(y.title))
                 /\ AcceptedNumeric(x.date) /\ AcceptedNumeric(y.date)
                 /\ DateTime(now_year, x.date.b, x.date.a)
                        < DateTime(now_year, y.date.b, y.date.a))
                => ~\E k \in 1..Len(latest_items) :
                        /\ latest_items[k].type = x.type
                        /\ Lower(Strip(latest_items[k].title)) = Lower(Strip(x.title))
                        /\ latest_items[k].date = x.date

====
